---- MODULE Spec2Model ----
(***************************************************************************)
(* A model of the grouped-reduction engine of earthkit-climate:            *)
(*   - tyto/aggregate.py       groupby, _groupby_bins,                     *)
(*                             _pandas_frequency_and_bins, rolling_reduce  *)
(*   - tyto/options.py         nanaverage, HOW_DICT                        *)
(*   - earthkit/climate/climatology.py  the decorator chain and the        *)
(*                             climatological operations                   *)
(*   - earthkit/climate/shapes.py  rasterize, mask_contains_points,        *)
(*                             _shape_mask_iterator, masks, reduce         *)
(*                                                                         *)
(* Python values are tagged records (t = "None", "int", "str", "list").    *)
(* A Python str is a sequence of atoms: every decimal digit and every      *)
(* blank is an atom of its own, a run of other characters is one atom, so  *)
(* "3D" is <<"3","D">> and "dayofyear" is <<"dayofyear">>.                  *)
(* Floating-point numbers are exact rationals, NaN or +inf; rounding is    *)
(* not modelled.                                                           *)
(***************************************************************************)
EXTENDS Integers, Sequences, FiniteSets, TLC

VARIABLES
    gbIn,       \* groupby: the arguments of the call (time axis, frequency, bin_widths, squeeze)
    gbOut,      \* groupby: the outcome of the call, or Pending
    nanIn,      \* nanaverage: the arguments of the call (data, weights, axis)
    nanOut,     \* nanaverage: what the call returns or raises, or Pending
    default_groupby_kwargs,  \* climatology: for each decorated operation, the dict
                             \* that is the default of its wrapper's groupby_kwargs
    caller_groupby_kwargs,   \* climatology: a dict the caller owns and may pass
    dataarray,  \* climatology: the array the caller works on
    climCall,   \* climatology: the last call, its arguments and its outcome
    ncalls,     \* climatology: the number of calls made
    regIn,      \* registry: the reducer name looked up and the data it is applied to
    regOut,     \* registry: the function found and its value, or Pending
    rollIn,     \* rolling_reduce: the arguments of the call
    rollOut,    \* rolling_reduce: what the call returns or raises, or Pending
    shpIn,      \* shapes: the operation called and its arguments
    shpOut      \* shapes: what the call returns or raises, or Pending

climVars == <<default_groupby_kwargs, caller_groupby_kwargs, dataarray, climCall, ncalls>>

regVars == <<regIn, regOut>>
rollVars == <<rollIn, rollOut>>
shapeVars == <<shpIn, shpOut>>

vars == <<gbIn, gbOut, nanIn, nanOut, default_groupby_kwargs,
          caller_groupby_kwargs, dataarray, climCall, ncalls,
          regIn, regOut, rollIn, rollOut, shpIn, shpOut>>

(***************************************************************************)
(* Python values                                                           *)
(***************************************************************************)
PyNone == [t |-> "None"]
PyInt(n) == [t |-> "int", i |-> n]
PyStr(s) == [t |-> "str", s |-> s]
PyList(l) == [t |-> "list", l |-> l]
PyBool(b) == [t |-> "bool", b |-> b]

\* A raised exception: its class, its message and the value it names
RaiseArg(e, m, a) == [exc |-> e, msg |-> m, arg |-> a]
Raise(e, m) == RaiseArg(e, m, <<>>)
IsRaise(r) == "exc" \in DOMAIN r

Pending == [pending |-> TRUE]

\* Python truthiness of a value (the `or` of aggregate.py line 125)
Truthy(v) ==
    CASE v.t = "None" -> FALSE
      [] v.t = "int" -> v.i # 0
      [] v.t = "str" -> v.s # <<>>
      [] v.t = "list" -> v.l # <<>>

PyOr(a, b) == IF Truthy(a) THEN a ELSE b

DigitChars == <<"0", "1", "2", "3", "4", "5", "6", "7", "8", "9">>
Digits == {DigitChars[k] : k \in 1..10}

\* str.lstrip(chars)
RECURSIVE lstrip(_, _)
lstrip(s, chars) ==
    IF s = <<>> THEN s
    ELSE IF Head(s) \in chars THEN lstrip(Tail(s), chars)
    ELSE s

\* str(n) for n >= 0
RECURSIVE IntToStr(_)
IntToStr(n) ==
    IF n < 10 THEN <<DigitChars[n + 1]>>
    ELSE IntToStr(n \div 10) \o <<DigitChars[(n % 10) + 1]>>

\* list(range(start, stop, step)) for step > 0: the items start + k*step
\* below stop
PyRange(start, stop, step) ==
    LET len == IF start >= stop THEN 0 ELSE (stop - start + step - 1) \div step
    IN  [k \in 1..len |-> start + (k - 1) * step]

(***************************************************************************)
(* tyto/aggregate.py                                                       *)
(***************************************************************************)
_PANDAS_FREQUENCIES ==
    [D |-> <<"dayofyear">>, W |-> <<"weekofyear">>, M |-> <<"month">>]

_BIN_MAXES ==
    [dayofyear |-> 366, weekofyear |-> 53, month |-> 12, season |-> 4]

\* dict.get(key, default) on _PANDAS_FREQUENCIES; key is a str
PandasGet(key, default) ==
    IF Len(key) = 1 /\ key[1] \in DOMAIN _PANDAS_FREQUENCIES
    THEN _PANDAS_FREQUENCIES[key[1]]
    ELSE default

\* A variant that looks the whole string up, multiplier included
PandasFrequencyNoStrip(frequency) ==
    [freq |-> PandasGet(frequency, frequency), bins |-> PyNone]

\* _pandas_frequency_and_bins(frequency): frequency is a str; returns the
\* pair (freq, bins) where bins is a str of digits or None
_pandas_frequency_and_bins(frequency) ==
    LET freq == lstrip(frequency, Digits)
        \* frequency[: -len(freq)]: the slice [:-0] is [:0], the empty str
        cut == IF Len(freq) = 0 THEN 0 ELSE Len(frequency) - Len(freq)
        pre == SubSeq(frequency, 1, cut)
        bins == IF pre # <<>> THEN PyStr(pre) ELSE PyNone
    IN  [freq |-> PandasGet(lstrip(freq, {" "}), frequency), bins |-> bins]

\* The time axis of an array: n samples, regularly spaced or not, the
\* spacing being `mult` times the pandas offset `alias`.
\* xr.infer_freq(dataarray.time): raises with fewer than 3 samples, returns
\* None when no frequency fits, else the pandas frequency string.
infer_freq(time) ==
    IF time.n < 3 THEN Raise("ValueError", "need at least 3 dates")
    ELSE IF ~time.regular THEN PyNone
    ELSE IF time.mult = 1 THEN PyStr(<<time.alias>>)
    ELSE PyStr(IntToStr(time.mult) \o <<time.alias>>)

\* The components of the time accessor (dataarray.time.dt) by which an array
\* can be grouped; "time.<other>" raises AttributeError.
TimeAccessor ==
    {"dayofyear", "weekofyear", "month", "season", "year", "day", "week", "hour"}

HasAccessor(frequency) == Len(frequency) = 1 /\ frequency[1] \in TimeAccessor

InvalidFrequency(frequency) == RaiseArg("ValueError", "Invalid frequency", frequency)

\* _groupby_bins(dataarray, frequency, bin_widths, squeeze)
_groupby_bins(frequency, bin_widths, squeeze) ==
    IF bin_widths.t # "list" /\
       ~(Len(frequency) = 1 /\ frequency[1] \in DOMAIN _BIN_MAXES)
    THEN RaiseArg("KeyError", "", frequency)
    ELSE IF bin_widths.t = "str"
    THEN Raise("TypeError", "'str' object cannot be interpreted as an integer")
    ELSE IF bin_widths.t = "None"
    THEN Raise("TypeError", "'NoneType' object cannot be interpreted as an integer")
    ELSE IF bin_widths.t = "int" /\ bin_widths.i = 0
    THEN Raise("ValueError", "range() arg 3 must not be zero")
    ELSE LET edges == IF bin_widths.t = "list" THEN bin_widths.l
                      ELSE PyRange(0, _BIN_MAXES[frequency[1]] + 1, bin_widths.i)
         IN  IF ~HasAccessor(frequency) THEN InvalidFrequency(frequency)
             ELSE [kind |-> "groupby_bins", key |-> frequency,
                   edges |-> edges, squeeze |-> squeeze]

\* Lines 116-125 of groupby: the values of `frequency` and `bin_widths` at
\* line 127, or the exception raised before it
ResolveFrequency(time, frequency, bin_widths) ==
    IF frequency.t # "None"
    THEN [frequency |-> frequency.s, bin_widths |-> bin_widths]
    ELSE LET inferred == infer_freq(time)
         IN  IF IsRaise(inferred)
             THEN Raise("ValueError", "Unable to infer time frequency; pass 'frequency'")
             ELSE IF inferred.t = "None"
             THEN Raise("AttributeError", "'NoneType' object has no attribute 'lstrip'")
             ELSE LET fb == _pandas_frequency_and_bins(inferred.s)
                  IN  [frequency |-> fb.freq,
                       bin_widths |-> PyOr(bin_widths, fb.bins)]

\* groupby(dataarray, frequency, bin_widths, squeeze); `resolved` records the
\* locals at line 127, `result` what the call returns or raises
groupby(time, frequency, bin_widths, squeeze) ==
    LET r == ResolveFrequency(time, frequency, bin_widths)
    IN  IF IsRaise(r) THEN [resolved |-> PyNone, result |-> r]
        ELSE [resolved |-> PyStr(r.frequency),
              result |->
                IF r.bin_widths.t # "None"
                THEN _groupby_bins(r.frequency, r.bin_widths, squeeze)
                ELSE IF ~HasAccessor(r.frequency)
                THEN InvalidFrequency(r.frequency)
                ELSE [kind |-> "groupby", key |-> r.frequency,
                      squeeze |-> squeeze]]

(***************************************************************************)
(* Floating-point numbers: NaN, +inf/-inf, or an exact rational n/d in     *)
(* lowest terms with d > 0                                                 *)
(***************************************************************************)
NaN == [k |-> "nan"]
Inf(sign) == [k |-> "inf", sign |-> sign]

Abs(x) == IF x < 0 THEN -x ELSE x

RECURSIVE Gcd(_, _)
Gcd(a, b) == IF b = 0 THEN a ELSE Gcd(b, a % b)

Num(n, d) ==
    LET g == Gcd(Abs(n), Abs(d))
        sg == IF d < 0 THEN -1 ELSE 1
    IN  [k |-> "num", n |-> sg * (n \div g), d |-> sg * (d \div g)]

IsNaN(x) == x.k = "nan"
Sign(x) ==
    IF x.k = "inf" THEN x.sign
    ELSE IF x.n > 0 THEN 1 ELSE IF x.n < 0 THEN -1 ELSE 0

FAdd(a, b) ==
    IF IsNaN(a) \/ IsNaN(b) THEN NaN
    ELSE IF a.k = "inf" /\ b.k = "inf"
    THEN (IF a.sign = b.sign THEN a ELSE NaN)
    ELSE IF a.k = "inf" THEN a
    ELSE IF b.k = "inf" THEN b
    ELSE Num(a.n * b.d + b.n * a.d, a.d * b.d)

FMul(a, b) ==
    IF IsNaN(a) \/ IsNaN(b) THEN NaN
    ELSE IF a.k = "inf" \/ b.k = "inf"
    THEN (IF Sign(a) * Sign(b) = 0 THEN NaN ELSE Inf(Sign(a) * Sign(b)))
    ELSE Num(a.n * b.n, a.d * b.d)

\* a / b as numpy divides: x/0 is +-inf, 0/0 is NaN, and nothing is raised
FDiv(a, b) ==
    IF IsNaN(a) \/ IsNaN(b) THEN NaN
    ELSE IF a.k = "inf" /\ b.k = "inf" THEN NaN
    ELSE IF a.k = "inf" THEN Inf(a.sign * (IF Sign(b) < 0 THEN -1 ELSE 1))
    ELSE IF b.k = "inf" THEN Num(0, 1)
    ELSE IF b.n = 0
    THEN (IF a.n = 0 THEN NaN ELSE Inf(Sign(a)))
    ELSE Num(a.n * b.d, a.d * b.n)

\* np.nansum over all the elements of xs: NaN counts as zero
RECURSIVE nansum(_)
nansum(xs) ==
    IF xs = <<>> THEN Num(0, 1)
    ELSE IF IsNaN(Head(xs)) THEN nansum(Tail(xs))
    ELSE FAdd(Head(xs), nansum(Tail(xs)))

\* The number of elements of xs that are not NaN
RECURSIVE CountValid(_)
CountValid(xs) ==
    IF xs = <<>> THEN 0
    ELSE (IF IsNaN(Head(xs)) THEN 0 ELSE 1) + CountValid(Tail(xs))

\* np.nanmean over all the elements of xs: NaN when none is valid
nanmean(xs) == FDiv(nansum(xs), Num(CountValid(xs), 1))

RECURSIVE Product(_)
Product(shape) == IF shape = <<>> THEN 1 ELSE Head(shape) * Product(Tail(shape))

(***************************************************************************)
(* tyto/options.py: nanaverage.  An array is [shape, flat], flat in row-   *)
(* major order; weights has the shape of data; no further keyword          *)
(* arguments are passed, as `axis` is a parameter of its own.              *)
(***************************************************************************)
\* `for a in axis` (line 40): the items iterated over; an int has none
AxisList(axis) == axis.l

\* np.nansum(data * this_weights) (lines 49-51)
WeightedSum(data, this_weights) ==
    nansum([i \in 1..Len(data) |-> FMul(data[i], this_weights[i])])

nanaverage(data, weights, axis) ==
    IF weights.t # "None"
    THEN LET this_weights ==
                 [i \in 1..Len(data.flat) |->
                     IF IsNaN(data.flat[i]) THEN NaN
                     ELSE FMul(Num(1, 1), weights.a.flat[i])]
             this_denom == nansum(this_weights)
             reshape == [d \in 1..Len(data.shape) |->
                            IF \E j \in 1..Len(AxisList(axis)) :
                                   AxisList(axis)[j] = d - 1
                            THEN 1 ELSE data.shape[d]]
             scaled == [i \in 1..Len(data.flat) |->
                           FDiv(this_weights[i], this_denom)]
         IN  IF axis.t = "int"
             THEN Raise("TypeError", "'int' object is not iterable")
             ELSE IF axis.t = "list" /\ Product(reshape) # 1
             THEN Raise("ValueError", "cannot reshape array of size 1")
             ELSE WeightedSum(data.flat, scaled)
    ELSE nanmean(data.flat)

(***************************************************************************)
(* The calls of groupby: the arguments are drawn by Init, GroupbyCall      *)
(* applies the function.                                                   *)
(***************************************************************************)
MaxPoints == 3
MaxMult == 3
MaxWidth == 3

Aliases == {"D", "W", "M", "H", "W-SUN", "MS"}
Mults == (1..MaxMult) \cup {10 * m : m \in 1..MaxMult}

TimeAxes ==
    [n : 2..MaxPoints, regular : BOOLEAN, mult : Mults, alias : Aliases]

FrequencyArgs ==
    {PyNone} \cup
    {PyStr(<<f>>) : f \in {"dayofyear", "weekofyear", "month", "season",
                           "hour", "D", "W", "M", "bogus"}} \cup
    {PyStr(<<"3", "D">>)}

BinWidthArgs ==
    {PyNone} \cup {PyInt(w) : w \in 0..MaxWidth} \cup
    {PyList(<<0, 6, 12>>), PyList(<<0, 1, 3>>)}

GroupbyInputs ==
    [time : TimeAxes, frequency : FrequencyArgs,
     bin_widths : BinWidthArgs, squeeze : BOOLEAN]

GroupbyIdle == gbIn = Pending /\ gbOut = Pending

NanIdle == nanIn = Pending /\ nanOut = Pending

ClimIdle ==
    /\ default_groupby_kwargs = Pending
    /\ caller_groupby_kwargs = Pending
    /\ dataarray = Pending
    /\ climCall = Pending
    /\ ncalls = 0

RegIdle == regIn = Pending /\ regOut = Pending

RollIdle == rollIn = Pending /\ rollOut = Pending

ShapeIdle == shpIn = Pending /\ shpOut = Pending

GroupbyInit ==
    /\ gbIn \in GroupbyInputs
    /\ gbOut = Pending
    /\ NanIdle
    /\ ClimIdle
    /\ RegIdle /\ RollIdle /\ ShapeIdle

GroupbyCall ==
    /\ gbIn # Pending
    /\ gbOut = Pending
    /\ gbOut' = groupby(gbIn.time, gbIn.frequency, gbIn.bin_widths, gbIn.squeeze)
    /\ UNCHANGED <<gbIn, nanIn, nanOut>>
    /\ UNCHANGED climVars
    /\ UNCHANGED <<regVars, rollVars, shapeVars>>

GroupbyNext == GroupbyCall

GroupbySpec == GroupbyInit /\ [][GroupbyNext]_vars

GroupbyDone == gbOut # Pending

(***************************************************************************)
(* Properties of groupby                                                   *)
(***************************************************************************)
\* The FrequencySpec a pandas letter stands for
FrequencySpecOf(letter) ==
    CASE letter = "D" -> <<"dayofyear">>
      [] letter = "W" -> <<"weekofyear">>
      [] letter = "M" -> <<"month">>

\* The grouping key a pandas-style string stands for: digits followed by one
\* of D, W, M give the FrequencySpec, any other string stands for itself
MappedKey(s) ==
    IF /\ Len(s) >= 1
       /\ s[Len(s)] \in {"D", "W", "M"}
       /\ \A k \in 1..(Len(s) - 1) : s[k] \in Digits
    THEN FrequencySpecOf(s[Len(s)])
    ELSE s

InferenceFails(time) == time.n < 3 \/ ~time.regular

\* The string the inference gives for a regular time axis, written from the
\* axis: the multiplier, when above one, in decimal before the offset alias
InferredString(time) ==
    IF time.mult = 1 THEN <<time.alias>>
    ELSE (IF time.mult >= 10 THEN <<DigitChars[(time.mult \div 10) + 1]>> ELSE <<>>)
         \o <<DigitChars[(time.mult % 10) + 1], time.alias>>

C3_InferredMultiplierBins ==
    (/\ GroupbyDone
     /\ gbIn.frequency = PyNone /\ gbIn.bin_widths = PyNone
     /\ ~InferenceFails(gbIn.time)
     /\ gbIn.time.mult >= 2 /\ gbIn.time.alias \in {"D", "W", "M"}) =>
        LET spec == FrequencySpecOf(gbIn.time.alias)
            k == gbIn.time.mult
        IN  /\ gbOut.result =
                  groupby(gbIn.time, PyStr(spec), PyInt(k), gbIn.squeeze).result
            /\ ~IsRaise(gbOut.result)
            /\ gbOut.result.kind = "groupby_bins"
            /\ gbOut.result.edges = PyRange(0, _BIN_MAXES[spec[1]] + 1, k)

\* C9: with no frequency given and a time axis whose frequency cannot be
\* inferred (the inference raises or returns nothing), groupby fails with
\* the error that tells the caller to pass 'frequency'
C9_InferenceFailureError ==
    (GroupbyDone /\ gbIn.frequency = PyNone /\ InferenceFails(gbIn.time)) =>
        /\ IsRaise(gbOut.result)
        /\ gbOut.result.exc = "ValueError"
        /\ gbOut.result.msg = "Unable to infer time frequency; pass 'frequency'"

\* C10: whenever the resolved key is not a component of the time accessor,
\* groupby fails with the invalid-frequency error naming the key, whether it
\* groups plainly, by explicit edges or by an integer bin width
C10_InvalidFrequencyError ==
    (/\ GroupbyDone
     /\ gbOut.resolved # PyNone
     /\ ~(gbOut.resolved.s \in {<<a>> : a \in TimeAccessor})) =>
        /\ IsRaise(gbOut.result)
        /\ gbOut.result.exc = "ValueError"
        /\ gbOut.result.msg = "Invalid frequency"
        /\ gbOut.result.arg = gbOut.resolved.s

\* The bins (e_i, e_{i+1}] of the edges that hold the value v
BinsHolding(edges, v) ==
    {i \in 1..(Len(edges) - 1) : edges[i] < v /\ v <= edges[i + 1]}

\* C22: for an integer bin width w >= 1 and a frequency f among dayofyear,
\* weekofyear, month, season, the binned grouping has the edges 0, w, 2w, ...
\* up to the greatest multiple of w that does not exceed max(f), strictly
\* increasing, and every calendar value 1..max(f) lies in exactly one bin
\* (e_i, e_{i+1}]
C22_BinEdgesCoverValues ==
    (/\ GroupbyDone
     /\ gbIn.frequency # PyNone
     /\ Len(gbIn.frequency.s) = 1
     /\ gbIn.frequency.s[1] \in DOMAIN _BIN_MAXES
     /\ gbIn.bin_widths.t = "int"
     /\ gbIn.bin_widths.i >= 1) =>
        LET w == gbIn.bin_widths.i
            max == _BIN_MAXES[gbIn.frequency.s[1]]
            r == gbOut.result
        IN  /\ ~IsRaise(r)
            /\ r.kind = "groupby_bins"
            /\ Len(r.edges) = (max \div w) + 1
            /\ \A i \in 1..Len(r.edges) : r.edges[i] = (i - 1) * w
            /\ \A i \in 1..(Len(r.edges) - 1) : r.edges[i] < r.edges[i + 1]
            /\ \A v \in 1..max : Cardinality(BinsHolding(r.edges, v)) = 1

(***************************************************************************)
(* The calls of nanaverage: the arguments are drawn by Init, NanCall       *)
(* applies the function.                                                   *)
(***************************************************************************)
MaxLen == 3
MaxDim == 2
MaxVal == 3
MaxWeight == 1

DataVals == {NaN} \cup {Num(v, 1) : v \in 1..MaxVal}
WeightVals == {NaN} \cup {Num(w, 1) : w \in 0..MaxWeight}

Shapes ==
    {<<n>> : n \in 1..MaxLen} \cup
    {<<2, c>> : c \in 1..MaxDim}

PyArray(shape, flat) == [t |-> "array", a |-> [shape |-> shape, flat |-> flat]]

\* The values of `axis` for an array of ndim dimensions: None, one axis
\* index, or a list of axis indices
AxisArgs(ndim) ==
    {PyNone} \cup {PyInt(k) : k \in 0..(ndim - 1)} \cup
    {PyList(<<k>>) : k \in 0..(ndim - 1)} \cup
    (IF ndim = 2 THEN {PyList(<<0, 1>>)} ELSE {})

NanInputs ==
    UNION {
        [data : {[shape |-> sh, flat |-> f] : f \in [1..Product(sh) -> DataVals]},
         weights : {PyNone} \cup
                   {PyArray(sh, w) : w \in [1..Product(sh) -> WeightVals]},
         axis : AxisArgs(Len(sh))]
        : sh \in Shapes}

NanInit ==
    /\ nanIn \in NanInputs
    /\ nanOut = Pending
    /\ GroupbyIdle
    /\ ClimIdle
    /\ RegIdle /\ RollIdle /\ ShapeIdle

NanCall ==
    /\ nanIn # Pending
    /\ nanOut = Pending
    /\ nanOut' = nanaverage(nanIn.data, nanIn.weights, nanIn.axis)
    /\ UNCHANGED <<nanIn, gbIn, gbOut>>
    /\ UNCHANGED climVars
    /\ UNCHANGED <<regVars, rollVars, shapeVars>>

NanNext == NanCall

NanSpec == NanInit /\ [][NanNext]_vars

NanDone == nanOut # Pending

(***************************************************************************)
(* Properties of nanaverage                                                *)
(***************************************************************************)
\* The axes a value of `axis` names: all of them for None
ReducedAxes(axis, ndim) ==
    CASE axis.t = "None" -> 0..(ndim - 1)
      [] axis.t = "int" -> {axis.i}
      [] axis.t = "list" -> {axis.l[j] : j \in 1..Len(axis.l)}

\* The weight of position i: 1 without weights
WeightAt(weights, i) == IF weights.t = "None" THEN Num(1, 1) ELSE weights.a.flat[i]

\* sum(w_i * x_i) / sum(w_i) over the positions idx[1..] where x_i is not NaN
SliceAverage(data, weights, idx) ==
    LET wx == [j \in 1..Len(idx) |->
                  IF IsNaN(data.flat[idx[j]]) THEN NaN
                  ELSE FMul(WeightAt(weights, idx[j]), data.flat[idx[j]])]
        w == [j \in 1..Len(idx) |->
                 IF IsNaN(data.flat[idx[j]]) THEN NaN
                 ELSE WeightAt(weights, idx[j])]
    IN  FDiv(nansum(wx), nansum(w))

\* The weighted average of every slice along the reduced axes, the other
\* axes kept: a scalar when every axis is reduced
SlicewiseAverage(data, weights, axis) ==
    LET ndim == Len(data.shape)
        red == ReducedAxes(axis, ndim)
        cols == data.shape[ndim]
    IN  IF red = 0..(ndim - 1)
        THEN SliceAverage(data, weights, [i \in 1..Len(data.flat) |-> i])
        ELSE IF red = {0}
        THEN [shape |-> <<cols>>,
              flat |-> [c \in 1..cols |->
                          SliceAverage(data, weights,
                              [r \in 1..data.shape[1] |-> (r - 1) * cols + c])]]
        ELSE [shape |-> <<data.shape[1]>>,
              flat |-> [r \in 1..data.shape[1] |->
                          SliceAverage(data, weights,
                              [c \in 1..cols |-> (r - 1) * cols + c])]]

\* A result one of whose values is NaN
AnyNaN(r) ==
    IF "k" \in DOMAIN r THEN IsNaN(r)
    ELSE \E i \in 1..Len(r.flat) : IsNaN(r.flat[i])

\* C6: nanaverage returns, for every slice along the reduced axes (all the
\* elements when axis is None), sum(w_i * x_i) / sum(w_i) over the positions
\* where x_i is not NaN, with w_i = 1 without weights, and keeps the axes
\* that are not reduced.  With weights it is stated for every slice having
\* a defined average (the void slices are C7's) and for axis None or a list
\* (the single index is C8's)
C6_SlicewiseWeightedAverage ==
    (/\ NanDone
     /\ \/ nanIn.weights.t = "None"
        \/ /\ nanIn.axis.t # "int"
           /\ ~AnyNaN(SlicewiseAverage(nanIn.data, nanIn.weights, nanIn.axis))) =>
        nanOut = SlicewiseAverage(nanIn.data, nanIn.weights, nanIn.axis)

\* Every weight of the array is zero or NaN, or sits on a NaN of the data
AllWeightsVoid(data, weights) ==
    \A i \in 1..Len(data.flat) :
        \/ IsNaN(data.flat[i])
        \/ IsNaN(weights.a.flat[i])
        \/ weights.a.flat[i] = Num(0, 1)

\* A result whose every value is NaN
AllNaN(r) ==
    IF "k" \in DOMAIN r THEN IsNaN(r)
    ELSE /\ "flat" \in DOMAIN r
         /\ \A i \in 1..Len(r.flat) : IsNaN(r.flat[i])

\* C7: weighted nanaverage over slices whose weights are all zero or NaN
\* (or whose data are all NaN) raises nothing and gives NaN for the slice;
\* nanaverage([1,2,3], weights=[0,0,0]) is NaN, not 0
C7_VoidWeightsGiveNaN ==
    (/\ NanDone
     /\ nanIn.weights.t # "None"
     /\ AllWeightsVoid(nanIn.data, nanIn.weights)) =>
        /\ ~IsRaise(nanOut)
        /\ AllNaN(nanOut)

\* C8: weighted nanaverage with axis given as a single index k completes
\* and equals the call with axis = [k]
C8_SingleAxisIndex ==
    (NanDone /\ nanIn.weights.t # "None" /\ nanIn.axis.t = "int") =>
        /\ ~IsRaise(nanOut)
        /\ nanOut = nanaverage(nanIn.data, nanIn.weights, PyList(<<nanIn.axis.i>>))

(***************************************************************************)
(* earthkit/climate/climatology.py.  A dict is a function from its keys;   *)
(* the keyword arguments of a call are a dict.  The array is described by  *)
(* the frequency its time axis gives when none is passed, the order in     *)
(* which a grouping by season finds the seasons, and a sorted sample of    *)
(* its values.                                                             *)
(***************************************************************************)
GROUPBY_KWARGS == {"frequency", "bin_widths", "squeeze"}

SeasonOrder == <<"DJF", "MAM", "JJA", "SON">>

Season == PyStr(<<"season">>)

\* time_dim_decorator: the keyword arguments with the detected time_dim added
time_dim_decorator(kwargs) ==
    IF "time_dim" \in DOMAIN kwargs THEN kwargs
    ELSE [k \in DOMAIN kwargs \cup {"time_dim"} |->
             IF k = "time_dim" THEN PyStr(<<"time">>) ELSE kwargs[k]]

\* groupby_kwargs_decorator: the loop of lines 33-37 on the dict object bound
\* to groupby_kwargs (setdefault keeps an entry the dict already has)
groupby_kwargs_decorator(groupby_kwargs, kwargs) ==
    LET moved == DOMAIN kwargs \cap GROUPBY_KWARGS
    IN  [groupby_kwargs |->
             [k \in DOMAIN groupby_kwargs \cup moved |->
                 IF k \in DOMAIN groupby_kwargs THEN groupby_kwargs[k]
                 ELSE kwargs[k]],
         new_kwargs |-> [k \in DOMAIN kwargs \ GROUPBY_KWARGS |-> kwargs[k]]]

\* result.reindex(season=order): a new array, the season axis in that order
Reindex(result, order) == [result EXCEPT !.axis = order]

\* season_order_decorator: kwargs are the keyword arguments the wrapper
\* receives; the reindexed array of line 49 is not bound to anything and the
\* wrapper returns `result`
season_order_decorator(kwargs, result) ==
    LET frequency == IF "frequency" \in DOMAIN kwargs THEN kwargs["frequency"]
                     ELSE PyStr(<<"NOTseason">>)
        reindexed == IF frequency \in {Season}
                     THEN Reindex(result, SeasonOrder) ELSE result
    IN  result

\* aggregate._groupby_time(dataarray, time_dim=time_dim, **groupby_kwargs):
\* the frequency the grouping resolves (inferred from the array when the
\* dict has none) and the labels of its season axis in the order found
GroupedFrequency(arr, groupby_kwargs) ==
    IF "frequency" \in DOMAIN groupby_kwargs THEN groupby_kwargs["frequency"]
    ELSE arr.inferred

GroupedAxis(arr, groupby_kwargs) ==
    IF GroupedFrequency(arr, groupby_kwargs) = Season THEN arr.order ELSE <<>>

\* The body of mean, stdev, max, min: group, then reduce with `how`
ReduceBody(how, arr, groupby_kwargs) ==
    [how |-> how,
     config |-> groupby_kwargs,
     frequency |-> GroupedFrequency(arr, groupby_kwargs),
     axis |-> GroupedAxis(arr, groupby_kwargs)]

\* The `how` each operation passes to aggregate.reduce
HowOf(op) ==
    CASE op = "mean" -> "mean"
      [] op = "stdev" -> "std"
      [] op = "max" -> "max"
      [] op = "min" -> "min"

\* grouped_data.quantile(q=quantile): linear interpolation in the sorted
\* sample at position q * (n - 1)
Quantile(data, q) ==
    LET n == Len(data)
        pos == FMul(q, Num(n - 1, 1))
        lo == pos.n \div pos.d
        hi == IF lo + 2 <= n THEN lo + 2 ELSE n
        frac == FAdd(pos, Num(-lo, 1))
    IN  FAdd(Num(data[lo + 1], 1),
             FMul(frac, Num(data[hi] - data[lo + 1], 1)))

\* The body of quantiles: one quantile per entry, concatenated along a new
\* "quantile" axis
quantiles(arr, qs, groupby_kwargs) ==
    [how |-> "quantile",
     config |-> groupby_kwargs,
     frequency |-> GroupedFrequency(arr, groupby_kwargs),
     axis |-> GroupedAxis(arr, groupby_kwargs),
     dim |-> "quantile",
     labels |-> qs,
     values |-> [i \in 1..Len(qs) |-> Quantile(arr.data, qs[i])]]

\* Lines 339-341 of percentiles: the "quantile" axis becomes "percentile",
\* labelled with the percentages
PercentileRelabel(quantile_data, ps) ==
    [quantile_data EXCEPT !.dim = "percentile", !.labels = ps]

\* percentiles: line 333 binds the local name `quantiles` to the list of
\* rescaled percentages, so the call of line 334 calls that list
percentiles(arr, ps, groupby_kwargs) ==
    LET quantiles_local == PyList([i \in 1..Len(ps) |-> FMul(Num(ps[i], 1), Num(1, 100))])
    IN  IF quantiles_local.t = "function"
        THEN PercentileRelabel(quantiles(arr, quantiles_local.l, groupby_kwargs), ps)
        ELSE Raise("TypeError", "'list' object is not callable")

\* The body of anomaly with no climatology given: the climatology is mean
\* called with the same groupby_kwargs object; the result of the grouped
\* subtraction is indexed by time and has no season axis.  The difference of
\* two arrays carries no attrs (xarray keeps none in arithmetic unless the
\* keep_attrs option is set); assign_attrs (line 398) returns a new array,
\* which is not bound to anything
anomaly(arr, groupby_kwargs) ==
    LET climatology == ReduceBody("mean", arr, groupby_kwargs)
        difference == [how |-> "anomaly",
                       config |-> groupby_kwargs,
                       frequency |-> climatology.frequency,
                       axis |-> <<>>,
                       attrs |-> [k \in {} |-> <<>>]]
        assigned == [difference EXCEPT !.attrs = arr.attrs]
        attrs_400 == [k \in DOMAIN difference.attrs |->
                         IF k = "standard_name"
                         THEN difference.attrs[k] \o <<"_anomaly">>
                         ELSE difference.attrs[k]]
        attrs_402 == [k \in DOMAIN attrs_400 |->
                         IF k = "long_name"
                         THEN attrs_400[k] \o <<" ", "anomaly">>
                         ELSE attrs_400[k]]
    IN  [difference EXCEPT !.attrs = attrs_402]

(***************************************************************************)
(* The calls of the climatology operations                                 *)
(***************************************************************************)
MaxCalls == 2

DecoratedOps == {"mean", "stdev", "max", "min", "quantiles", "anomaly"}

KwValues(k) ==
    CASE k = "frequency" -> {PyStr(<<"month">>), Season}
      [] k = "bin_widths" -> {PyInt(2)}
      [] k = "squeeze" -> {PyBool(FALSE)}

\* The dicts over the grouping keywords
GroupbyDicts ==
    {d \in UNION {[S -> UNION {KwValues(k) : k \in GROUPBY_KWARGS}] :
                     S \in SUBSET GROUPBY_KWARGS} :
        \A k \in DOMAIN d : d[k] \in KwValues(k)}

EmptyDict == [k \in {} |-> PyNone]

\* The attrs of the array: none, or the descriptive names and the units
ArrayAttrs ==
    {[k \in {} |-> <<>>],
     [standard_name |-> <<"air_temperature">>,
      long_name |-> <<"Air", " ", "temperature">>,
      units |-> <<"K">>]}

Arrays ==
    [inferred : {PyStr(<<"month">>)},
     order : {<<"DJF", "JJA", "MAM", "SON">>, <<"JJA", "SON", "DJF", "MAM">>,
              SeasonOrder},
     data : {<<1, 2, 4>>, <<3, 5>>},
     attrs : ArrayAttrs]

PercentLists == {<<50>>, <<25, 75>>}

ClimInit ==
    /\ default_groupby_kwargs = [op \in DecoratedOps |-> EmptyDict]
    /\ caller_groupby_kwargs \in {EmptyDict, [frequency |-> PyStr(<<"month">>)]}
    /\ dataarray \in Arrays
    /\ climCall = Pending
    /\ ncalls = 0
    /\ GroupbyIdle
    /\ NanIdle
    /\ RegIdle /\ RollIdle /\ ShapeIdle

\* The body of the decorated operation op; qs are the quantiles of quantiles
Body(op, arr, qs, groupby_kwargs) ==
    CASE op = "quantiles" -> quantiles(arr, qs, groupby_kwargs)
      [] op = "anomaly" -> anomaly(arr, groupby_kwargs)
      [] OTHER -> ReduceBody(HowOf(op), arr, groupby_kwargs)

\* One call op(dataarray, **kw), with groupby_kwargs=caller_groupby_kwargs
\* when `passed`: the three wrappers, then the body
DecoratedCall(op, kw, passed, qs) ==
    LET kwargs == time_dim_decorator(kw)
        bound == IF passed THEN caller_groupby_kwargs
                 ELSE default_groupby_kwargs[op]
        split == groupby_kwargs_decorator(bound, kwargs)
        inner == [k \in DOMAIN split.new_kwargs \cup {"groupby_kwargs"} |->
                     IF k = "groupby_kwargs" THEN split.groupby_kwargs
                     ELSE split.new_kwargs[k]]
    IN  /\ ncalls < MaxCalls
        /\ ncalls' = ncalls + 1
        /\ IF passed
           THEN /\ caller_groupby_kwargs' = split.groupby_kwargs
                /\ UNCHANGED default_groupby_kwargs
           ELSE /\ default_groupby_kwargs' =
                      [default_groupby_kwargs EXCEPT ![op] = split.groupby_kwargs]
                /\ UNCHANGED caller_groupby_kwargs
        /\ climCall' = [op |-> op, kw |-> kw, passed |-> passed,
                        before |-> bound,
                        outcome |-> season_order_decorator(
                                        inner,
                                        Body(op, dataarray, qs, split.groupby_kwargs))]
        /\ UNCHANGED <<dataarray, gbIn, gbOut, nanIn, nanOut>>
        /\ UNCHANGED <<regVars, rollVars, shapeVars>>

ClimReduce ==
    \E op \in {"mean", "stdev", "max", "min"}, kw \in GroupbyDicts, passed \in BOOLEAN :
        DecoratedCall(op, kw, passed, <<>>)

ClimQuantiles ==
    \E ps \in PercentLists, kw \in GroupbyDicts, passed \in BOOLEAN :
        DecoratedCall("quantiles", kw, passed,
                      [i \in 1..Len(ps) |-> Num(ps[i], 100)])

ClimAnomaly ==
    \E kw \in GroupbyDicts, passed \in BOOLEAN :
        DecoratedCall("anomaly", kw, passed, <<>>)

\* percentiles(dataarray, ps, **kw): not decorated; nothing is reached
\* beyond line 334
ClimPercentiles ==
    \E ps \in PercentLists, kw \in GroupbyDicts :
        /\ ncalls < MaxCalls
        /\ ncalls' = ncalls + 1
        /\ climCall' = [op |-> "percentiles", kw |-> kw, passed |-> FALSE,
                        before |-> default_groupby_kwargs["quantiles"],
                        percentiles |-> ps,
                        outcome |-> percentiles(dataarray, ps, kw)]
        /\ UNCHANGED <<default_groupby_kwargs, caller_groupby_kwargs, dataarray,
                       gbIn, gbOut, nanIn, nanOut>>
        /\ UNCHANGED <<regVars, rollVars, shapeVars>>

ClimNext == ClimReduce \/ ClimQuantiles \/ ClimAnomaly \/ ClimPercentiles

ClimSpec == ClimInit /\ [][ClimNext]_vars

ClimDone == climCall # Pending

(***************************************************************************)
(* Properties of the climatology operations                                *)
(***************************************************************************)
\* C1: the grouping configuration a call uses is the one passed to that
\* call, a key the call omits being left to the grouping (the frequency
\* inferred from the call's own array); it does not depend on the arguments
\* of an earlier call.  Stated for calls that pass no groupby_kwargs dict.
C1_ConfigIsOwn ==
    (ClimDone /\ climCall.op \in DecoratedOps /\ ~climCall.passed) =>
        /\ climCall.outcome.config = climCall.kw
        /\ climCall.outcome.frequency =
               (IF "frequency" \in DOMAIN climCall.kw
                THEN climCall.kw["frequency"] ELSE dataarray.inferred)

\* C4: an operation whose grouping resolved the frequency "season" returns
\* the season axis in the order DJF, MAM, JJA, SON, whatever the order in
\* which the groups were found (stated for the operations that return a
\* season axis: mean, stdev, max, min, quantiles)
C4_SeasonOrder ==
    (/\ ClimDone
     /\ climCall.op \in DecoratedOps \ {"anomaly"}
     /\ climCall.outcome.frequency = Season) =>
        climCall.outcome.axis = SeasonOrder

\* C5: percentiles(arr, P) returns the values of quantiles(arr, [p/100 for
\* p in P]), the "quantile" axis replaced by a "percentile" axis labelled
\* with P in the same order
C5_PercentilesAreQuantiles ==
    (ClimDone /\ climCall.op = "percentiles") =>
        /\ ~IsRaise(climCall.outcome)
        /\ climCall.outcome.dim = "percentile"
        /\ climCall.outcome.labels = climCall.percentiles
        /\ climCall.outcome.values =
               quantiles(dataarray,
                         [i \in 1..Len(climCall.percentiles) |->
                             Num(climCall.percentiles[i], 100)],
                         climCall.kw).values

\* C20: anomaly puts the attrs of the input array on its result and extends
\* them: standard_name, when the input has it, is the input's followed by
\* "_anomaly", long_name the input's followed by " anomaly", and every other
\* attribute is the input's
C20_AnomalyAttrs ==
    (ClimDone /\ climCall.op = "anomaly") =>
        LET in == dataarray.attrs
            out == climCall.outcome.attrs
        IN  /\ DOMAIN out = DOMAIN in
            /\ \A k \in DOMAIN in :
                   out[k] = (CASE k = "standard_name" -> in[k] \o <<"_anomaly">>
                               [] k = "long_name" -> in[k] \o <<" ", "anomaly">>
                               [] OTHER -> in[k])

\* C21: a groupby_kwargs dict the caller passes to mean, stdev, max, min,
\* quantiles or anomaly has, after the call, the keys and values it had
\* before, also when frequency, bin_widths or squeeze are passed as keyword
\* arguments of their own
C21_CallerMappingUnchanged ==
    (ClimDone /\ climCall.op \in DecoratedOps /\ climCall.passed) =>
        caller_groupby_kwargs = climCall.before

(***************************************************************************)
(* tyto/options.py: HOW_DICT, the registry of reducers.  A function is     *)
(* named by the expression the dict holds; the numpy reducers are applied  *)
(* to all the elements of an array (axis None).                            *)
(***************************************************************************)
\* A registry that lacks the alias "stdev"
HowDictWithoutStdev ==
    [average |-> "nanaverage", mean |-> "np.nanmean", stddev |-> "np.nanstd",
     std |-> "np.nanstd", sum |-> "np.nansum",
     max |-> "np.nanmax", min |-> "np.nanmin", median |-> "np.nanmedian",
     q |-> "np.nanquantile", quantile |-> "np.nanquantile",
     percentile |-> "np.nanpercentile", p |-> "np.nanpercentile"]

HOW_DICT ==
    [average |-> "nanaverage", mean |-> "np.nanmean", stddev |-> "np.nanstd",
     std |-> "np.nanstd", stdev |-> "np.nanstd", sum |-> "np.nansum",
     max |-> "np.nanmax", min |-> "np.nanmin", median |-> "np.nanmedian",
     q |-> "np.nanquantile", quantile |-> "np.nanquantile",
     percentile |-> "np.nanpercentile", p |-> "np.nanpercentile"]

\* HOW_DICT[name] (aggregate.py line 231): the function, or the KeyError of
\* the dict naming the key
resolve(name) ==
    IF name \in DOMAIN HOW_DICT THEN [fn |-> HOW_DICT[name]]
    ELSE RaiseArg("KeyError", "", <<name>>)

\* a < b for numbers that are not NaN
FLess(a, b) ==
    IF a.k = "inf" THEN a.sign < 0 /\ ~(b.k = "inf" /\ b.sign < 0)
    ELSE IF b.k = "inf" THEN b.sign > 0
    ELSE a.n * b.d < b.n * a.d

\* np.nanmax: NaN is replaced by -inf before the maximum is taken; an array
\* of NaN only gives NaN (and a warning)
RECURSIVE MaxFrom(_, _)
MaxFrom(xs, best) ==
    IF xs = <<>> THEN best
    ELSE LET x == IF IsNaN(Head(xs)) THEN Inf(-1) ELSE Head(xs)
         IN  MaxFrom(Tail(xs), IF FLess(best, x) THEN x ELSE best)

nanmax(xs) == IF CountValid(xs) = 0 THEN NaN ELSE MaxFrom(xs, Inf(-1))

\* np.nanmin: NaN is replaced by +inf
RECURSIVE MinFrom(_, _)
MinFrom(xs, best) ==
    IF xs = <<>> THEN best
    ELSE LET x == IF IsNaN(Head(xs)) THEN Inf(1) ELSE Head(xs)
         IN  MinFrom(Tail(xs), IF FLess(x, best) THEN x ELSE best)

nanmin(xs) == IF CountValid(xs) = 0 THEN NaN ELSE MinFrom(xs, Inf(1))

\* The elements of xs that are not NaN, in ascending order
RECURSIVE Insert(_, _)
Insert(x, sorted) ==
    IF sorted = <<>> THEN <<x>>
    ELSE IF FLess(Head(sorted), x) THEN <<Head(sorted)>> \o Insert(x, Tail(sorted))
    ELSE <<x>> \o sorted

RECURSIVE SortedValid(_)
SortedValid(xs) ==
    IF xs = <<>> THEN <<>>
    ELSE IF IsNaN(Head(xs)) THEN SortedValid(Tail(xs))
    ELSE Insert(Head(xs), SortedValid(Tail(xs)))

\* np.nanquantile(xs, q) for 0 <= q <= 1: linear interpolation at position
\* q * (n - 1) of the sorted valid elements
nanquantile(xs, q) ==
    LET v == SortedValid(xs)
        n == Len(v)
        pos == FMul(q, Num(n - 1, 1))
        lo == pos.n \div pos.d
        hi == IF lo + 2 <= n THEN lo + 2 ELSE n
        frac == FAdd(pos, Num(-lo, 1))
    IN  IF FLess(q, Num(0, 1)) \/ FLess(Num(1, 1), q)
        THEN Raise("ValueError", "Quantiles must be in the range [0, 1]")
        ELSE IF n = 0 THEN NaN
        ELSE FAdd(v[lo + 1],
                  FMul(frac, FAdd(v[hi], FMul(Num(-1, 1), v[lo + 1]))))

\* np.nanpercentile(xs, q) for 0 <= q <= 100
nanpercentile(xs, q) ==
    IF FLess(q, Num(0, 1)) \/ FLess(Num(100, 1), q)
    THEN Raise("ValueError", "Percentiles must be in the range [0, 100]")
    ELSE nanquantile(xs, FMul(q, Num(1, 100)))

\* np.nanmedian
nanmedian(xs) == nanquantile(xs, Num(1, 2))

\* np.nanstd: the square root, kept as a term, of the mean squared distance
\* of the valid elements from their mean
nanstd(xs) ==
    LET avg == nanmean(xs)
        sq == [i \in 1..Len(xs) |->
                  IF IsNaN(xs[i]) THEN NaN
                  ELSE LET dx == FAdd(xs[i], FMul(Num(-1, 1), avg))
                       IN  FMul(dx, dx)]
    IN  IF CountValid(xs) = 0 THEN NaN
        ELSE [k |-> "sqrt", of |-> nanmean(sq)]

\* fn(data) or fn(data, q=q): what the function named fn gives for the 1-D
\* array data; q is None or a number
Apply(fn, data, q) ==
    CASE fn = "nanaverage" ->
             nanaverage([shape |-> <<Len(data)>>, flat |-> data], PyNone, PyNone)
      [] fn = "np.nanmean" -> nanmean(data)
      [] fn = "np.nanstd" -> nanstd(data)
      [] fn = "np.nansum" -> nansum(data)
      [] fn = "np.nanmax" -> nanmax(data)
      [] fn = "np.nanmin" -> nanmin(data)
      [] fn = "np.nanmedian" -> nanmedian(data)
      [] fn = "np.nanquantile" ->
             IF q = PyNone
             THEN Raise("TypeError", "missing 1 required positional argument: 'q'")
             ELSE nanquantile(data, q)
      [] fn = "np.nanpercentile" ->
             IF q = PyNone
             THEN Raise("TypeError", "missing 1 required positional argument: 'q'")
             ELSE nanpercentile(data, q)

(***************************************************************************)
(* The lookups of the registry: a name is looked up and the function found *)
(* is applied to an array                                                  *)
(***************************************************************************)
ReducerNames ==
    {"average", "mean", "stddev", "std", "stdev", "sum", "max", "min",
     "median", "q", "quantile", "percentile", "p",
     "bogus", "nanmean", "var", "Mean"}

RegData == UNION {[1..n -> DataVals] : n \in 1..MaxLen}

RegQs == {PyNone, Num(1, 2), Num(50, 1)}

RegInit ==
    /\ regIn \in [name : ReducerNames, data : RegData, q : RegQs]
    /\ regOut = Pending
    /\ GroupbyIdle /\ NanIdle /\ ClimIdle /\ RollIdle /\ ShapeIdle

RegCall ==
    /\ regIn # Pending
    /\ regOut = Pending
    /\ regOut' = LET r == resolve(regIn.name)
                 IN  IF IsRaise(r) THEN r
                     ELSE [fn |-> r.fn, value |-> Apply(r.fn, regIn.data, regIn.q)]
    /\ UNCHANGED <<regIn, gbIn, gbOut, nanIn, nanOut>>
    /\ UNCHANGED <<climVars, rollVars, shapeVars>>

RegNext == RegCall

RegSpec == RegInit /\ [][RegNext]_vars

RegDone == regOut # Pending

(***************************************************************************)
(* Properties of the registry                                              *)
(***************************************************************************)
\* The implementation listed for each recognized reducer name
ListedImplementation(name) ==
    CASE name = "mean" -> "np.nanmean"
      [] name \in {"std", "stddev", "stdev"} -> "np.nanstd"
      [] name = "sum" -> "np.nansum"
      [] name = "max" -> "np.nanmax"
      [] name = "min" -> "np.nanmin"
      [] name = "median" -> "np.nanmedian"
      [] name \in {"quantile", "q"} -> "np.nanquantile"
      [] name \in {"percentile", "p"} -> "np.nanpercentile"
      [] name = "average" -> "nanaverage"

RecognizedNames ==
    {"mean", "std", "stddev", "stdev", "sum", "max", "min", "median",
     "quantile", "q", "percentile", "p", "average"}

\* The sequence xs without its NaN
Valid(xs) == SelectSeq(xs, LAMBDA x : ~IsNaN(x))

RECURSIVE SumSeq(_)
SumSeq(v) == IF v = <<>> THEN Num(0, 1) ELSE FAdd(Head(v), SumSeq(Tail(v)))

\* The statistic over a sequence v without NaN: the sum, the mean, the
\* greatest and the least element (NaN for the mean and the extremes of an
\* empty sequence)
PlainStatistic(name, v) ==
    CASE name = "sum" -> SumSeq(v)
      [] name \in {"mean", "average"} ->
             IF v = <<>> THEN NaN ELSE FDiv(SumSeq(v), Num(Len(v), 1))
      [] name = "max" ->
             IF v = <<>> THEN NaN
             ELSE CHOOSE x \in {v[i] : i \in 1..Len(v)} :
                      \A i \in 1..Len(v) : ~FLess(x, v[i])
      [] name = "min" ->
             IF v = <<>> THEN NaN
             ELSE CHOOSE x \in {v[i] : i \in 1..Len(v)} :
                      \A i \in 1..Len(v) : ~FLess(v[i], x)

\* C12: the registry recognizes exactly the 13 names mean, std, stddev,
\* stdev, sum, max, min, median, quantile, q, percentile, p, average; a
\* recognized name resolves to the NaN-ignoring implementation listed for it
\* (any other name resolves to nothing), two names listed with the same
\* implementation resolve to the same function, and the function found for
\* sum, mean, average, max, min gives the statistic of the elements that are
\* not NaN (mean of [1, NaN, 3] is 2)
C12_RegistryMapping ==
    RegDone =>
        /\ (regIn.name \in RecognizedNames) <=> ~IsRaise(regOut)
        /\ DOMAIN HOW_DICT = RecognizedNames
        /\ regIn.name \in RecognizedNames =>
               /\ regOut.fn = ListedImplementation(regIn.name)
               /\ \A other \in RecognizedNames :
                      ListedImplementation(other) = ListedImplementation(regIn.name)
                          => resolve(other).fn = regOut.fn
               /\ regIn.name \in {"sum", "mean", "average", "max", "min"} =>
                      regOut.value = PlainStatistic(regIn.name, Valid(regIn.data))

\* C12 witness: "stdev" has resolved to nanstd, as "std" does
C12_Witness ==
    /\ RegDone
    /\ regIn.name = "stdev"
    /\ ~IsRaise(regOut)
    /\ regOut.fn = "np.nanstd"
    /\ regIn.data = <<Num(1, 1), NaN, Num(3, 1)>>
    /\ regOut.value = [k |-> "sqrt", of |-> Num(1, 1)]

(***************************************************************************)
(* tyto/aggregate.py: rolling_reduce.  The array is described by its       *)
(* dimension names; **kwargs is a dict.  `how`, `q` and `dropna_how` are   *)
(* parameters of the function, so a call cannot leave them in kwargs.      *)
(* Line 207 lacks the `=` of the assignment (as written the file does not  *)
(* compile); it is read as the assignment of the dict comprehension.       *)
(***************************************************************************)
\* The entries of the dict d under the keys, and those under other keys
Restrict(d, keys) == [k \in DOMAIN d \cap keys |-> d[k]]
Without(d, keys) == [k \in DOMAIN d \ keys |-> d[k]]

\* dir(data_rolling) without the names that start with "_": the reductions
\* of a rolling view, and its attributes that are not callable
RollingReductions ==
    {"argmax", "argmin", "count", "max", "mean", "median", "min", "prod",
     "std", "sum", "var"}

RollingAttributes ==
    {"center", "dim", "min_periods", "ndim", "obj", "window", "window_labels"}

in_built_how_methods ==
    RollingReductions \cup RollingAttributes \cup {"construct", "reduce"}

\* dataarray.rolling(**rolling_kwargs): the view over the window dimensions;
\* without a window dimension the constructor of the view raises
rolling(rolling_kwargs) ==
    LET windows == DOMAIN rolling_kwargs \ {"min_periods", "center"}
    IN  IF windows = {}
        THEN Raise("IndexError", "list index out of range")
        ELSE [dims |-> windows,
              options |-> Restrict(rolling_kwargs, {"min_periods", "center"})]

\* data_rolling.__getattribute__(how)(**reduce_kwargs) (line 228)
CallNative(how, reduce_kwargs) ==
    IF how \notin in_built_how_methods
    THEN RaiseArg("AttributeError", "object has no attribute", <<how>>)
    ELSE IF how \in RollingAttributes
    THEN RaiseArg("TypeError", "object is not callable", <<how>>)
    ELSE IF how \in {"construct", "reduce"}
    THEN RaiseArg("TypeError", "missing 1 required positional argument", <<how>>)
    ELSE [via |-> "native", reducer |-> how, kwargs |-> reduce_kwargs,
          dropped |-> <<>>]

\* data_rolling.reduce(HOW_DICT[how_reduce], reduce_kwargs) (lines 230-232):
\* the dict is the second positional argument of reduce, keep_attrs, and no
\* keyword argument reaches the function
CallReduce(how_reduce, reduce_kwargs) ==
    LET f == resolve(how_reduce)
    IN  IF IsRaise(f) THEN f
        ELSE [via |-> "reduce", reducer |-> f.fn,
              kwargs |-> [k \in {} |-> PyNone], dropped |-> <<>>]

\* Lines 234-236: the string 'dropna_how' is not None, so the loop always
\* runs; dropna(dim, how=None) without thresh raises
DropNa(data_windowed, window_dims, dropna_how) ==
    IF "dropna_how" # "None"
    THEN IF window_dims = <<>> THEN data_windowed
         ELSE IF dropna_how = PyNone
         THEN Raise("TypeError", "must specify how or thresh")
         ELSE [data_windowed EXCEPT !.dropped =
                  [i \in 1..Len(window_dims) |->
                      [dim |-> window_dims[i], how |-> dropna_how]]]
    ELSE data_windowed

rolling_reduce(dims, how, q, dropna_how, kwargs) ==
    LET window_dims == SelectSeq(dims, LAMBDA d : d \in DOMAIN kwargs)
        accepted_rolling_kwargs ==
            {"min_periods", "center"} \cup {window_dims[i] : i \in 1..Len(window_dims)}
        \* lines 207-210: kwargs.pop inside the iteration over kwargs
        popped == DOMAIN kwargs \cap accepted_rolling_kwargs
        rolling_kwargs == Restrict(kwargs, popped)
        kwargs_212 == Without(kwargs, popped)
        \* line 212: the parameter is overwritten from kwargs
        dropna_how_212 == IF "dropna_how" \in DOMAIN kwargs_212
                          THEN kwargs_212["dropna_how"] ELSE PyNone
        \* line 214
        how_reduce == IF "how" \in DOMAIN kwargs_212
                      THEN kwargs_212["how"] ELSE "mean"
        reduce_kwargs == Without(kwargs_212, {"dropna_how", "how"})
        data_rolling == rolling(rolling_kwargs)
        data_windowed == IF how_reduce \in in_built_how_methods
                         THEN CallNative(how, reduce_kwargs)
                         ELSE CallReduce(how_reduce, reduce_kwargs)
    IN  IF popped # {}
        THEN Raise("RuntimeError", "dictionary changed size during iteration")
        ELSE IF IsRaise(data_rolling) THEN data_rolling
        ELSE IF IsRaise(data_windowed) THEN data_windowed
        ELSE DropNa(data_windowed, window_dims, dropna_how_212)

(***************************************************************************)
(* The calls of rolling_reduce                                             *)
(***************************************************************************)
RollDims == {<<"time">>, <<"time", "lat">>}

RollHows ==
    {"mean", "max", "std", "stddev", "average", "median", "percentile", "bogus"}

RollKwValues ==
    [time |-> PyInt(3), lat |-> PyInt(2), min_periods |-> PyInt(1),
     center |-> PyBool(TRUE), skipna |-> PyBool(TRUE)]

RollKwargs == {Restrict(RollKwValues, S) : S \in SUBSET DOMAIN RollKwValues}

RollInputs ==
    [dims : RollDims, how : RollHows, q : {PyList(<<50>>), PyList(<<25>>)},
     dropna_how : {PyNone, PyStr(<<"any">>), PyStr(<<"all">>)},
     kwargs : RollKwargs]

RollInit ==
    /\ rollIn \in RollInputs
    /\ rollOut = Pending
    /\ GroupbyIdle /\ NanIdle /\ ClimIdle /\ RegIdle /\ ShapeIdle

RollCall ==
    /\ rollIn # Pending
    /\ rollOut = Pending
    /\ rollOut' = rolling_reduce(rollIn.dims, rollIn.how, rollIn.q,
                                 rollIn.dropna_how, rollIn.kwargs)
    /\ UNCHANGED <<rollIn, gbIn, gbOut, nanIn, nanOut>>
    /\ UNCHANGED <<climVars, regVars, shapeVars>>

RollNext == RollCall

RollSpec == RollInit /\ [][RollNext]_vars

RollDone == rollOut # Pending

(***************************************************************************)
(* Properties of rolling_reduce                                            *)
(***************************************************************************)
\* The windowed dimensions of a call: the dimensions of the array that the
\* window mapping names, in the order of the array
WindowedDims(in) == SelectSeq(in.dims, LAMBDA d : d \in DOMAIN in.kwargs)

\* The keyword arguments left for the reducer: those that are neither a
\* window nor min_periods nor center
ReducerKwargs(in) ==
    Without(in.kwargs,
            {"min_periods", "center"} \cup
                {WindowedDims(in)[i] : i \in 1..Len(WindowedDims(in))})

\* C11: a reducer name that is neither a native rolling method nor a key of
\* the registry makes rolling_reduce fail with the registry's unknown-reducer
\* error naming it (the KeyError of HOW_DICT); nothing is returned and no
\* default reducer is used.  Stated for calls that give a window for a
\* dimension of the array
C11_UnknownReducerError ==
    (/\ RollDone
     /\ WindowedDims(rollIn) # <<>>
     /\ rollIn.how \notin RollingReductions
     /\ rollIn.how \notin DOMAIN HOW_DICT) =>
        /\ IsRaise(rollOut)
        /\ rollOut.exc = "KeyError"
        /\ rollOut.arg = <<rollIn.how>>

\* C18: rolling_reduce applies the reducer named by `how`: the native method
\* of the rolling view when `how` names one, else the registry function for
\* `how` through the generic windowed reduce; the reducer receives the
\* keyword arguments left after the rolling arguments are removed
C18_HowResolution ==
    (/\ RollDone
     /\ rollIn.how \in RollingReductions \cup DOMAIN HOW_DICT
     /\ WindowedDims(rollIn) # <<>>) =>
        /\ ~IsRaise(rollOut)
        /\ rollIn.how \in RollingReductions =>
               rollOut.via = "native" /\ rollOut.reducer = rollIn.how
        /\ rollIn.how \notin RollingReductions =>
               rollOut.via = "reduce" /\ rollOut.reducer = HOW_DICT[rollIn.how]
        /\ rollOut.kwargs = ReducerKwargs(rollIn)

\* C19: rolling_reduce drops labels only when dropna_how is set: with None
\* the result keeps every label of every windowed dimension, with "any" or
\* "all" that policy is applied to each windowed dimension
C19_DropnaPolicy ==
    (/\ RollDone
     /\ rollIn.how \in RollingReductions
     /\ WindowedDims(rollIn) # <<>>) =>
        /\ ~IsRaise(rollOut)
        /\ rollOut.dropped =
               (IF rollIn.dropna_how = PyNone THEN <<>>
                ELSE [i \in 1..Len(WindowedDims(rollIn)) |->
                         [dim |-> WindowedDims(rollIn)[i],
                          how |-> rollIn.dropna_how]])

(***************************************************************************)
(* earthkit/climate/shapes.py.  The target array is described by the names *)
(* of its latitude and longitude coordinates (a regular grid: each is a    *)
(* dimension of its own); a geodataframe by its geometries in row order,   *)
(* its columns and its attrs.  A mask records the function that built it,  *)
(* the geometries it was built from and its dimensions.                    *)
(***************************************************************************)
PyDict(d) == [t |-> "dict", d |-> d]

\* target.coords: the names of the coordinates of the array
Coords(target) == {target.lat, target.lon, "time"}

\* The keyword arguments rasterio.features.rasterize accepts besides those
\* rasterize passes itself
RasterioKwargs == {"out", "fill", "all_touched", "merge_alg", "default_value"}

\* rasterize(shape_list, coords, lat_key='latitude', lon_key='longitude',
\*           dtype=int, **kwargs)
rasterize(shape_list, coords, kwargs) ==
    LET lat_key == IF "lat_key" \in DOMAIN kwargs THEN kwargs["lat_key"]
                   ELSE "latitude"
        lon_key == IF "lon_key" \in DOMAIN kwargs THEN kwargs["lon_key"]
                   ELSE "longitude"
        rest == DOMAIN kwargs \ {"lat_key", "lon_key", "dtype"}
    IN  IF lat_key \notin coords THEN RaiseArg("KeyError", "", <<lat_key>>)
        ELSE IF lon_key \notin coords THEN RaiseArg("KeyError", "", <<lon_key>>)
        ELSE IF ~(rest \subseteq RasterioKwargs)
        THEN RaiseArg("TypeError", "rasterize() got an unexpected keyword argument",
                      <<CHOOSE k \in rest : k \notin RasterioKwargs>>)
        ELSE [strategy |-> "rasterize", shapes |-> shape_list,
              dims |-> <<lat_key, lon_key>>]

\* mask_contains_points(shape_list, coords, lat_key='lat', lon_key='lon',
\*                      **kwargs): the other keyword arguments are not used
mask_contains_points(shape_list, coords, kwargs) ==
    LET lat_key == IF "lat_key" \in DOMAIN kwargs THEN kwargs["lat_key"]
                   ELSE "lat"
        lon_key == IF "lon_key" \in DOMAIN kwargs THEN kwargs["lon_key"]
                   ELSE "lon"
    IN  IF lat_key \notin coords THEN RaiseArg("KeyError", "", <<lat_key>>)
        ELSE IF lon_key \notin coords THEN RaiseArg("KeyError", "", <<lon_key>>)
        ELSE [strategy |-> "mask_contains_points", shapes |-> shape_list,
              dims |-> <<lat_key, lon_key>>]

\* geopandas_to_shape_list(geodataframe)
geopandas_to_shape_list(geodataframe) == geodataframe.shapes

\* _shape_mask_iterator(shapes, target, regular_grid=True, **kwargs): the
\* masks the generator yields, in order, or the exception raised on the way
_shape_mask_iterator(geodataframe, target, kwargs) ==
    LET shapes == geopandas_to_shape_list(geodataframe)
        regular_grid == IF "regular_grid" \in DOMAIN kwargs
                        THEN kwargs["regular_grid"].b ELSE TRUE
        rest == Without(kwargs, {"regular_grid"})
        masks_ == [i \in 1..Len(shapes) |->
                     IF regular_grid
                     THEN rasterize(<<shapes[i]>>, Coords(target), rest)
                     ELSE mask_contains_points(<<shapes[i]>>, Coords(target), rest)]
    IN  IF \E i \in 1..Len(shapes) : IsRaise(masks_[i])
        THEN masks_[CHOOSE i \in 1..Len(shapes) :
                        /\ IsRaise(masks_[i])
                        /\ \A j \in 1..(i - 1) : ~IsRaise(masks_[j])]
        ELSE [masks |-> masks_]

\* np.arange(n)
arange(n) == [i \in 1..n |-> i - 1]

\* Lines 176-182 of masks and 245-251 of reduce: the name and the labels of
\* the feature dimension for n slices.  geodataframe.get gives the column or
\* the default, an ndarray, which has no to_numpy; the items() of a dict of
\* one entry are one pair, unpacked into two names
MaskDim(mask_dim, geodataframe, n) ==
    IF mask_dim.t = "str"
    THEN IF mask_dim.s[1] \in DOMAIN geodataframe.columns
         THEN [dim |-> mask_dim.s[1],
               values |-> geodataframe.columns[mask_dim.s[1]]]
         ELSE LET default == arange(n)
              IN  Raise("AttributeError",
                        "'numpy.ndarray' object has no attribute 'to_numpy'")
    ELSE IF mask_dim.t = "dict"
    THEN LET keys == DOMAIN mask_dim.d
             \* list(mask_dim.items()) of a dict of one entry
             items == LET k == CHOOSE k \in keys : TRUE
                      IN  <<(<<k, mask_dim.d[k]>>)>>
         IN  IF Cardinality(keys) # 1
             THEN Raise("AssertionError", "mask_dim should have only one key value pair")
             ELSE IF Len(items) # 2
             THEN Raise("ValueError", "not enough values to unpack (expected 2, got 1)")
             ELSE [dim |-> items[1], values |-> items[2]]
    ELSE Raise("ValueError", "Unrecognised format for mask_dim")

\* xr.concat(slices, dim) followed by assign_coords and attrs.update
Concat(slices, md, geodataframe) ==
    IF Len(slices) = 0
    THEN Raise("ValueError", "must supply at least one object to concatenate")
    ELSE [dim |-> md.dim, labels |-> md.values, slices |-> slices,
          attrs |-> geodataframe.attrs]

\* masks(dataarray, geodataframe, mask_dim='FID', regular_grid=True,
\*       **kwargs): regular_grid is bound by the parameter and line 173 passes
\* only kwargs to the iterator
masks(target, geodataframe, mask_dim, regular_grid, kwargs) ==
    LET it == _shape_mask_iterator(geodataframe, target, kwargs)
        masked_arrays == [i \in 1..Len(it.masks) |-> [masked_by |-> it.masks[i]]]
        md == MaskDim(mask_dim, geodataframe, Len(masked_arrays))
    IN  IF IsRaise(it) THEN it
        ELSE IF IsRaise(md) THEN md
        ELSE Concat(masked_arrays, md, geodataframe)

\* this.reduce(how, dim=spatial_dims, **kwargs): the function is called with
\* the keyword arguments; only nanaverage takes weights, the quantile
\* functions take q, and none takes any other of the keywords used here
ReducerKeywords(how) ==
    CASE how = "nanaverage" -> {"weights"}
      [] how \in {"np.nanquantile", "np.nanpercentile"} -> {"q"}
      [] OTHER -> {}

ReduceMasked(how, spatial_dims, kwargs, mask) ==
    IF ~(DOMAIN kwargs \subseteq ReducerKeywords(how))
    THEN RaiseArg("TypeError", "got an unexpected keyword argument",
                  <<CHOOSE k \in DOMAIN kwargs : k \notin ReducerKeywords(how)>>)
    ELSE [how |-> how, dim |-> spatial_dims, masked_by |-> mask,
          weights |-> IF "weights" \in DOMAIN kwargs THEN kwargs["weights"]
                      ELSE PyNone]

\* tools.get_how(how): the registry function of the name
get_how(how) ==
    IF how \in DOMAIN HOW_DICT THEN [fn |-> HOW_DICT[how]]
    ELSE RaiseArg("UnknownReducerError", "", <<how>>)

\* tools.get_dim_key(dataarray, axis): the name of the coordinate of the
\* array that stands for the axis "y" or "x"
get_dim_key(target, axis) == IF axis = "y" THEN target.lat ELSE target.lon

\* tools.get_spatial_dims(dataarray, lat_key, lon_key)
get_spatial_dims(target, lat_key, lon_key) == <<lat_key, lon_key>>

\* tools.WEIGHTS_DICT: the named strategies; each gives a weight array from
\* the latitude coordinate over the spatial dimensions
WEIGHTS_DICT == {"latitude"}

WeightArray(strategy, spatial_dims) ==
    [t |-> "array", of |-> <<strategy>> \o spatial_dims]

\* reduce(dataarray, geodataframe, how=nanaverage, weights=None,
\*        lat_key=None, lon_key=None, mask_dim='FID', **kwargs)
reduce(target, geodataframe, how, weights, lat_key, lon_key, mask_dim, kwargs) ==
    LET how_222 == IF how.t = "str" THEN get_how(how.s[1]) ELSE [fn |-> how.fn]
        lat_key_225 == IF lat_key = PyNone THEN get_dim_key(target, "y")
                       ELSE lat_key.s[1]
        lon_key_227 == IF lon_key = PyNone THEN get_dim_key(target, "x")
                       ELSE lon_key.s[1]
        spatial_dims == get_spatial_dims(target, lat_key_225, lon_key_227)
        \* lines 233-235: only a str puts weights into kwargs
        kwargs_235 ==
            IF weights.t = "str"
            THEN [k \in DOMAIN kwargs \cup {"weights"} |->
                     IF k = "weights" THEN WeightArray(weights.s[1], spatial_dims)
                     ELSE kwargs[k]]
            ELSE kwargs
        it == _shape_mask_iterator(geodataframe, target, kwargs_235)
        reduced_list == [i \in 1..Len(it.masks) |->
                            ReduceMasked(how_222.fn, spatial_dims, kwargs_235,
                                         it.masks[i])]
        md == MaskDim(mask_dim, geodataframe, Len(reduced_list))
    IN  IF IsRaise(how_222) THEN how_222
        ELSE IF weights.t = "str" /\ weights.s[1] \notin WEIGHTS_DICT
        THEN RaiseArg("KeyError", "", weights.s)
        ELSE IF IsRaise(it) THEN it
        ELSE IF \E i \in 1..Len(reduced_list) : IsRaise(reduced_list[i])
        THEN reduced_list[1]
        ELSE IF IsRaise(md) THEN md
        ELSE Concat(reduced_list, md, geodataframe)

(***************************************************************************)
(* The calls of the shape operations: Init draws the array, the            *)
(* geodataframe and the arguments; each action calls one operation.        *)
(***************************************************************************)
MaxShapes == 2

Geometries == {"A", "B"}

Targets == {[lat |-> "latitude", lon |-> "longitude"], [lat |-> "lat", lon |-> "lon"]}

\* The geodataframes of n rows: with or without a column FID
GeoDataFrames ==
    UNION {
        [shapes : [1..n -> Geometries],
         columns : {[FID |-> [i \in 1..n |-> 100 + i]], [k \in {} |-> <<>>]},
         attrs : {[crs |-> "EPSG:4326"]}]
        : n \in 0..MaxShapes}

\* The values of mask_dim for n features
MaskDimArgs(n) ==
    {PyStr(<<"FID">>), PyStr(<<"name">>),
     PyDict([region |-> [i \in 1..n |-> 200 + i]]),
     PyDict([region |-> [i \in 1..n |-> 200 + i], other |-> arange(n)]),
     PyInt(3)}

DefaultHow == [t |-> "callable", fn |-> "nanaverage"]

HowArgs == {DefaultHow, PyStr(<<"mean">>), PyStr(<<"bogus">>)}

ExplicitWeights == [t |-> "array", of |-> <<"explicit">>]

WeightsArgs == {PyNone, PyStr(<<"latitude">>), ExplicitWeights}

\* lat_key and lon_key are omitted, or name the coordinates of the array
ShapeInputs ==
    UNION {
        [target : {t}, geodataframe : {g},
         mask_dim : MaskDimArgs(Len(g.shapes)),
         regular_grid : {PyNone, PyBool(TRUE), PyBool(FALSE)},
         how : HowArgs, weights : WeightsArgs,
         lat_key : {PyNone, PyStr(<<t.lat>>)}]
        : t \in Targets, g \in GeoDataFrames}

\* lon_key goes with lat_key
LonKey(in) == IF in.lat_key = PyNone THEN PyNone ELSE PyStr(<<in.target.lon>>)

\* The dict of the keyword arguments regular_grid, lat_key, lon_key a call
\* passes; an omitted one is not in the dict
KeywordDict(regular_grid, lat_key, lon_key) ==
    [k \in (IF regular_grid = PyNone THEN {} ELSE {"regular_grid"}) \cup
           (IF lat_key = PyNone THEN {} ELSE {"lat_key"}) \cup
           (IF lon_key = PyNone THEN {} ELSE {"lon_key"}) |->
        CASE k = "regular_grid" -> regular_grid
          [] k = "lat_key" -> lat_key.s[1]
          [] k = "lon_key" -> lon_key.s[1]]

ShapeInit ==
    /\ shpIn \in ShapeInputs
    /\ shpOut = Pending
    /\ GroupbyIdle /\ NanIdle /\ ClimIdle /\ RegIdle /\ RollIdle

\* list(_shape_mask_iterator(geodataframe, dataarray, regular_grid=...,
\*                           lat_key=..., lon_key=...))
ShapeIterate ==
    /\ shpIn # Pending
    /\ shpOut = Pending
    /\ shpOut' = [op |-> "iterate",
                  result |-> _shape_mask_iterator(
                                 shpIn.geodataframe, shpIn.target,
                                 KeywordDict(shpIn.regular_grid, shpIn.lat_key,
                                             LonKey(shpIn)))]
    /\ UNCHANGED <<shpIn, gbIn, gbOut, nanIn, nanOut>>
    /\ UNCHANGED <<climVars, regVars, rollVars>>

\* masks(dataarray, geodataframe, mask_dim=..., regular_grid=...,
\*       lat_key=..., lon_key=...)
ShapeMasks ==
    /\ shpIn # Pending
    /\ shpOut = Pending
    /\ shpOut' = [op |-> "masks",
                  result |-> masks(shpIn.target, shpIn.geodataframe,
                                   shpIn.mask_dim,
                                   IF shpIn.regular_grid = PyNone THEN PyBool(TRUE)
                                   ELSE shpIn.regular_grid,
                                   KeywordDict(PyNone, shpIn.lat_key, LonKey(shpIn)))]
    /\ UNCHANGED <<shpIn, gbIn, gbOut, nanIn, nanOut>>
    /\ UNCHANGED <<climVars, regVars, rollVars>>

\* reduce(dataarray, geodataframe, how=..., weights=..., lat_key=...,
\*        lon_key=..., mask_dim=..., regular_grid=...)
ShapeReduce ==
    /\ shpIn # Pending
    /\ shpOut = Pending
    /\ shpOut' = [op |-> "reduce",
                  result |-> reduce(shpIn.target, shpIn.geodataframe, shpIn.how,
                                    shpIn.weights, shpIn.lat_key, LonKey(shpIn),
                                    shpIn.mask_dim,
                                    KeywordDict(shpIn.regular_grid, PyNone, PyNone))]
    /\ UNCHANGED <<shpIn, gbIn, gbOut, nanIn, nanOut>>
    /\ UNCHANGED <<climVars, regVars, rollVars>>

ShapeNext == ShapeIterate \/ ShapeMasks \/ ShapeReduce

ShapeSpec == ShapeInit /\ [][ShapeNext]_vars

ShapeDone == shpOut # Pending

(***************************************************************************)
(* Properties of the shape operations                                      *)
(***************************************************************************)
NumShapes == Len(shpIn.geodataframe.shapes)

\* The feature-id specification is a string naming a column of the
\* geodataframe
NamesColumn(in) ==
    in.mask_dim.t = "str" /\ in.mask_dim.s[1] \in DOMAIN in.geodataframe.columns

\* The coordinates of the array have the names the rasterize path defaults to
DefaultNames(in) == in.target.lat = "latitude" /\ in.target.lon = "longitude"

\* The function a value of regular_grid selects; an omitted flag is true
StrategyOf(regular_grid) ==
    IF regular_grid = PyBool(FALSE) THEN "mask_contains_points" ELSE "rasterize"

\* The masks of a result: those the iterator yielded, or those the slices of
\* masks and reduce were masked by
MasksOf(out) ==
    IF out.op = "iterate" THEN out.result.masks
    ELSE [i \in 1..Len(out.result.slices) |-> out.result.slices[i].masked_by]

\* C13: for a geodataframe of n >= 1 geometries the iterator yields n masks,
\* the i-th built from the i-th geometry alone, and reduce returns n slices,
\* the i-th being the reduction of the array masked by the i-th geometry.
\* Stated for the iterator called with the names of the coordinates of the
\* array, and for reduce called with a recognized reducer, no weights, no
\* regular_grid and a string mask_dim
C13_OneSlicePerGeometry ==
    (/\ ShapeDone
     /\ NumShapes >= 1
     /\ \/ shpOut.op = "iterate" /\ shpIn.lat_key # PyNone
        \/ /\ shpOut.op = "reduce"
           /\ shpIn.how # PyStr(<<"bogus">>)
           /\ shpIn.weights = PyNone
           /\ shpIn.regular_grid = PyNone
           /\ shpIn.mask_dim.t = "str") =>
        /\ ~IsRaise(shpOut.result)
        /\ Len(MasksOf(shpOut)) = NumShapes
        /\ \A i \in 1..NumShapes :
               MasksOf(shpOut)[i].shapes = <<shpIn.geodataframe.shapes[i]>>

\* The error of a feature-id specification that is neither a column name nor
\* a mapping of one entry
IsInvalidMaskDim(r) ==
    /\ IsRaise(r)
    /\ r.msg \in {"Unrecognised format for mask_dim",
                  "mask_dim should have only one key value pair"}

\* C14: the feature dimension of masks and reduce: a string naming a column
\* gives the dimension that name and the column as labels; a string naming
\* no column gives that name and the labels 0..n-1; a mapping of one entry
\* gives its key as name and its value as labels; anything else fails with
\* the invalid-mask_dim error.  Stated for calls whose masks and reductions
\* succeed: coordinates named latitude and longitude, the default reducer,
\* no weights, no regular_grid, no lat_key
C14_FeatureDimension ==
    (/\ ShapeDone
     /\ shpOut.op \in {"masks", "reduce"}
     /\ NumShapes >= 1
     /\ DefaultNames(shpIn)
     /\ shpIn.how = DefaultHow
     /\ shpIn.weights = PyNone
     /\ shpIn.regular_grid = PyNone
     /\ shpIn.lat_key = PyNone) =>
        LET md == shpIn.mask_dim
            r == shpOut.result
        IN  IF md.t = "str"
            THEN /\ ~IsRaise(r)
                 /\ r.dim = md.s[1]
                 /\ r.labels = (IF NamesColumn(shpIn)
                                THEN shpIn.geodataframe.columns[md.s[1]]
                                ELSE arange(NumShapes))
            ELSE IF md.t = "dict" /\ Cardinality(DOMAIN md.d) = 1
            THEN /\ ~IsRaise(r)
                 /\ \A k \in DOMAIN md.d : r.dim = k /\ r.labels = md.d[k]
            ELSE IsInvalidMaskDim(r)

\* C15: when weights is given to reduce, as the name of a strategy or as an
\* array, the call completes and the reducer receives, for every geometry,
\* the weight array (that of the strategy over the spatial dimensions, or
\* the array given).  Stated for the default reducer, coordinates named
\* latitude and longitude and a mask_dim naming a column
C15_WeightsReachReducer ==
    (/\ ShapeDone
     /\ shpOut.op = "reduce"
     /\ NumShapes >= 1
     /\ shpIn.weights # PyNone
     /\ DefaultNames(shpIn)
     /\ shpIn.how = DefaultHow
     /\ shpIn.regular_grid = PyNone
     /\ NamesColumn(shpIn)) =>
        /\ ~IsRaise(shpOut.result)
        /\ Len(shpOut.result.slices) = NumShapes
        /\ \A i \in 1..NumShapes :
               shpOut.result.slices[i].weights =
                   (IF shpIn.weights.t = "str"
                    THEN WeightArray(shpIn.weights.s[1],
                                     <<shpIn.target.lat, shpIn.target.lon>>)
                    ELSE shpIn.weights)

\* C16: the regular_grid flag of the caller selects the mask function in the
\* iterator, in masks and in reduce: rasterize when true,
\* mask_contains_points when false.  Stated for the default reducer, no
\* weights, a mask_dim naming a column, and, for the iterator and masks,
\* lat_key and lon_key naming the coordinates of the array
C16_StrategySelection ==
    (/\ ShapeDone
     /\ NumShapes >= 1
     /\ shpIn.regular_grid # PyNone
     /\ shpIn.how = DefaultHow
     /\ shpIn.weights = PyNone
     /\ NamesColumn(shpIn)
     /\ IF shpOut.op = "reduce"
        THEN shpIn.target.lat = (IF shpIn.regular_grid.b THEN "latitude" ELSE "lat")
        ELSE shpIn.lat_key # PyNone) =>
        /\ ~IsRaise(shpOut.result)
        /\ \A i \in 1..NumShapes :
               MasksOf(shpOut)[i].strategy = StrategyOf(shpIn.regular_grid)

\* C17: in reduce every mask is built over the latitude and longitude
\* dimensions resolved for the reduction (lat_key and lon_key when given,
\* else the detected ones): the dimensions of each mask are the spatial
\* dimensions the reducer is applied over.  Stated for the default reducer,
\* no weights, no regular_grid and a mask_dim naming a column
C17_MaskOverResolvedDims ==
    (/\ ShapeDone
     /\ shpOut.op = "reduce"
     /\ NumShapes >= 1
     /\ shpIn.how = DefaultHow
     /\ shpIn.weights = PyNone
     /\ shpIn.regular_grid = PyNone
     /\ NamesColumn(shpIn)) =>
        /\ ~IsRaise(shpOut.result)
        /\ \A i \in 1..NumShapes :
               /\ shpOut.result.slices[i].dim = <<shpIn.target.lat, shpIn.target.lon>>
               /\ shpOut.result.slices[i].masked_by.dims =
                      shpOut.result.slices[i].dim

====
